---- MODULE Spec2Model ----
(***************************************************************************)
(* A model of the Ship aggregation engine of coriolis                      *)
(* (src/app/js/shipyard/factory-ship.js) and of its Persist service        *)
(* (src/unnamed/part_000), which PersistSpec runs on its own.              *)
(*                                                                         *)
(* The Ship object is one record-valued variable; every prototype method   *)
(* is an operator from ship records to ship records, translated statement  *)
(* by statement, and one action applies it.  A TypeError raised inside a   *)
(* method (a property read on null) stops the method where it is raised:   *)
(* the record keeps the assignments made so far and its field `thrown`     *)
(* is set.                                                                 *)
(*                                                                         *)
(* Numbers are integers: power, mass, cost and the cost multipliers are    *)
(* whole units, so sums are exact (the source adds IEEE doubles).          *)
(***************************************************************************)
EXTENDS Integers, Sequences, FiniteSets, TLC

\* ship: the Ship object.  ret: what the last call returned.  last, last2:
\* the last call and the one before it.  before: the ship the last call
\* started from.  ops: the number of calls made.  persist: the Persist
\* service (src/unnamed/part_000) with the browser's localStorage and its
\* last call.
VARIABLES ship, before, ret, last, last2, ops, persist

vars == <<ship, before, ret, last, last2, ops, persist>>

\* The number of operations of one run.
MaxOps == 3

\* The passes of optimizeMass's loop that are followed; with 2 thrusters
\* and 3 power plants a loop that exchanges something in 7 passes has
\* installed one pair twice and goes on for ever.
MaxPasses == 7

\* ---------------------------------------------------------------- values

\* null / undefined, for a component id and for a component reference
Null == "null"

\* slot.enabled: buildWith stores enabled[i] * 1 (1, 0 or NaN) or true,
\* setSlotEnabled stores its boolean argument.  1 and true (0 and false)
\* are the same value for every use the source makes of the field (a
\* truth test, or a loose != against a boolean).
EnTrue == "true"
EnFalse == "false"
EnNaN == "NaN"
EnUndefined == "undefined"

Truthy(e) == e = EnTrue

\* slot.enabled != enabled, the loose inequality of setSlotEnabled
LooseNeq(e, arg) == e \in {EnNaN, EnUndefined} \/ e /= arg

\* undefined * 1, stored as a priority by buildWith
PriorityNaN == 0 - 1

\* ---------------------------------------------------------------- catalog

Comp(grp, cost, mass, power, capacity, dps, shieldmul, passive, pGen, maxfuel) ==
  [grp |-> grp, cost |-> cost, mass |-> mass, power |-> power,
   capacity |-> capacity, dps |-> dps, shieldmul |-> shieldmul,
   armouradd |-> 0, passive |-> passive, pGen |-> pGen, maxfuel |-> maxfuel]

\* The component records, by id (the Components service).
Catalog ==
  [ppA  |-> Comp("pp", 2, 1, 0, 0, 0, 0, FALSE, 7, 0),
   pp   |-> Comp("pp", 4, 2, 0, 0, 0, 0, FALSE, 10, 0),
   ppB  |-> Comp("pp", 7, 3, 0, 0, 0, 0, FALSE, 16, 0),
   th   |-> Comp("t", 2, 1, 1, 0, 0, 0, FALSE, 0, 0),
   thB  |-> Comp("t", 3, 2, 2, 0, 0, 0, FALSE, 0, 0),
   fsd  |-> Comp("fd", 2, 1, 1, 0, 0, 0, FALSE, 0, 1),
   ls   |-> Comp("ls", 1, 1, 1, 0, 0, 0, FALSE, 0, 0),
   pd   |-> Comp("pd", 1, 1, 1, 0, 0, 0, FALSE, 0, 0),
   sn   |-> Comp("s", 1, 1, 1, 0, 0, 0, FALSE, 0, 0),
   ft   |-> Comp("ft", 1, 0, 0, 2, 0, 0, FALSE, 0, 0),
   w6   |-> Comp("pl", 4, 1, 6, 0, 3, 0, FALSE, 0, 0),
   w7   |-> Comp("pl", 6, 2, 7, 0, 4, 0, FALSE, 0, 0),
   sb   |-> Comp("sb", 2, 1, 1, 0, 0, 2, TRUE, 0, 0),
   sg   |-> Comp("sg", 4, 2, 2, 0, 0, 0, FALSE, 0, 0),
   psg  |-> Comp("psg", 8, 1, 3, 0, 0, 0, FALSE, 0, 0),
   fs   |-> Comp("fs", 2, 0, 1, 0, 0, 0, FALSE, 0, 0),
   cr   |-> Comp("cr", 1, 0, 0, 2, 0, 0, FALSE, 0, 0),
   bh0  |-> Comp("bh", 0, 0, 0, 0, 0, 0, FALSE, 0, 0),
   bh1  |-> Comp("bh", 6, 3, 0, 0, 0, 0, FALSE, 0, 0),
   hull |-> Comp("SHIP", 10, 0, 0, 0, 0, 0, FALSE, 0, 0),
   hatch |-> Comp("ch", 0, 0, 1, 0, 0, 0, FALSE, 0, 0)]

\* An id no catalog lookup knows.
UnknownId == "zz"

StandardIds == <<"pp", "th", "fsd", "ls", "pd", "sn", "ft">>
PowerPlantIds == {"ppA", "pp", "ppB"}
ThrusterIds == {"th", "thB"}
HardpointIds == {"w6", "w7", "sb"}
InternalIds == {"sg", "psg", "fs", "cr"}

\* Components.standard(i, id), Components.hardpoints(id),
\* Components.internal(id): the record's key, or null for an unknown id.
ComponentsStandard(i, id) ==
  IF \/ i + 1 \in DOMAIN StandardIds /\ StandardIds[i + 1] = id
     \/ i = 0 /\ id \in PowerPlantIds
     \/ i = 1 /\ id \in ThrusterIds
    THEN id ELSE Null
ComponentsHardpoints(id) == IF id \in HardpointIds THEN id ELSE Null
ComponentsInternal(id) == IF id \in InternalIds THEN id ELSE Null
ComponentsBulkheads(index) == IF index = 0 THEN "bh0" ELSE "bh1"
ComponentsCargoHatch == "hatch"

\* The fields of the component a slot refers to.
C(c) == Catalog[c]

\* ---------------------------------------------------------------- ship data

\* The ship's properties and slot layout (the constructor's arguments).
HullCost == Catalog["hull"].cost
HullMass == 5
BaseShieldStrength == 3
StandardLayout == <<2, 2, 2, 1, 1, 1, 1>>
HardpointLayout == <<1, 3, 0>>
InternalLayout == <<2, 2>>

\* ---------------------------------------------------------------- Ship

NumBands == 5

\* A slot as the constructor pushes it; enabled and priority are not set
\* before the first buildWith.
NewSlot(maxClass) ==
  [id |-> Null, c |-> Null, incCost |-> TRUE, maxClass |-> maxClass,
   enabled |-> EnUndefined, priority |-> 0, discountedCost |-> 0]

SlotGroup(layout) == [i \in 0..(Len(layout) - 1) |-> NewSlot(layout[i + 1])]

NewBand == [deployed |-> 0, retracted |-> 0, retOnly |-> 0, retractedSum |-> 0, deployedSum |-> 0]

\* new Ship(id, properties, slots).  The aggregates the constructor leaves
\* unassigned are 0 here and `built` is FALSE until buildWith assigns them;
\* sumsSet and powerSet tell whether updatePower has assigned the
\* cumulative sums and powerAvailable/powerRetracted/powerDeployed.
Ship ==
  [standard |-> SlotGroup(StandardLayout),
   hardpoints |-> SlotGroup(HardpointLayout),
   internal |-> SlotGroup(InternalLayout),
   cargoHatch |-> [NewSlot(0) EXCEPT !.id = ComponentsCargoHatch, !.c = ComponentsCargoHatch],
   bulkheads |-> [NewSlot(8) EXCEPT !.id = 0 - 1],
   c |-> [incCost |-> TRUE, discountedCost |-> HullCost, c |-> "hull"],
   shipCostMultiplier |-> 1,
   componentCostMultiplier |-> 1,
   priorityBands |-> [i \in 0..(NumBands - 1) |-> NewBand],
   fuelCapacity |-> 0, cargoCapacity |-> 0, ladenMass |-> 0, unladenMass |-> 0,
   armourAdded |-> 0, shieldMultiplier |-> 0, totalCost |-> 0, totalDps |-> 0,
   powerAvailable |-> 0, powerRetracted |-> 0, powerDeployed |-> 0,
   shieldStrength |-> 0,
   built |-> FALSE, sumsSet |-> FALSE, powerSet |-> FALSE,
   thrown |-> FALSE]

\* A reference to one of the ship's slots: the group and the index in it.
Ref(grp, i) == [grp |-> grp, i |-> i]
NoRef == Ref("none", 0)
PowerPlant == Ref("standard", 0)
FSD == Ref("standard", 2)
CargoHatch == Ref("cargoHatch", 0)
Bulkheads == Ref("bulkheads", 0)
Hull == Ref("c", 0)

StandardRefs == {Ref("standard", i) : i \in 0..(Len(StandardLayout) - 1)}
HardpointRefs == {Ref("hardpoints", i) : i \in 0..(Len(HardpointLayout) - 1)}
InternalRefs == {Ref("internal", i) : i \in 0..(Len(InternalLayout) - 1)}
SlotRefs == StandardRefs \cup HardpointRefs \cup InternalRefs

GetSlot(s, ref) ==
  CASE ref.grp = "standard" -> s.standard[ref.i]
    [] ref.grp = "hardpoints" -> s.hardpoints[ref.i]
    [] ref.grp = "internal" -> s.internal[ref.i]
    [] ref.grp = "cargoHatch" -> s.cargoHatch
    [] ref.grp = "bulkheads" -> s.bulkheads
    [] ref.grp = "c" -> s.c

SetSlot(s, ref, slot) ==
  CASE ref.grp = "standard" -> [s EXCEPT !.standard[ref.i] = slot]
    [] ref.grp = "hardpoints" -> [s EXCEPT !.hardpoints[ref.i] = slot]
    [] ref.grp = "internal" -> [s EXCEPT !.internal[ref.i] = slot]
    [] ref.grp = "cargoHatch" -> [s EXCEPT !.cargoHatch = slot]
    [] ref.grp = "bulkheads" -> [s EXCEPT !.bulkheads = slot]
    [] ref.grp = "c" -> [s EXCEPT !.c = slot]

\* slot.cat, as buildWith assigns it (undefined for the cargo hatch and
\* the bulkheads, which buildWith gives no cat)
Cat(ref) ==
  CASE ref.grp = "standard" -> 0
    [] ref.grp = "hardpoints" -> 1
    [] ref.grp = "internal" -> 2
    [] OTHER -> 0 - 1

\* A TypeError: the statements after it are not executed (every step
\* below leaves a ship that has thrown as it is).
Throw(s) == [s EXCEPT !.thrown = TRUE]

powerUsageType(ref, component) ==
  IF component /= Null /\ C(component).passive
    THEN "retracted"
    ELSE IF Cat(ref) /= 1 THEN "retracted" ELSE "deployed"

\* priorityBands[tier][usage] += delta
AddToBand(s, tier, usage, delta) ==
  IF usage = "retracted"
    THEN [s EXCEPT !.priorityBands[tier].retracted = @ + delta]
    ELSE [s EXCEPT !.priorityBands[tier].deployed = @ + delta]

\* ---------------------------------------------------------------- getters

findInternalByGroup(s, group) ==
  LET family(g) == IF group \in {"sg", "psg"} THEN g \in {"sg", "psg"} ELSE g = group
      found == {i \in DOMAIN s.internal :
                  s.internal[i].c /= Null /\ family(C(s.internal[i].c).grp)}
  IN IF found = {} THEN NoRef
     ELSE Ref("internal", CHOOSE i \in found : \A j \in found : i <= j)

\* calcShieldStrength (the formula library)
calcShieldStrength(hullMass, baseShieldStrength, sg, multiplier) ==
  baseShieldStrength * multiplier

\* ---------------------------------------------------------------- updates

\* The loop of updatePower: the running totals over the bands, highest
\* priority first.
RECURSIVE RetractedSum(_, _)
RetractedSum(bands, i) ==
  (IF i = 0 THEN 0 ELSE RetractedSum(bands, i - 1)) + bands[i].retracted + bands[i].retOnly

RECURSIVE DeployedSum(_, _)
DeployedSum(bands, i) ==
  (IF i = 0 THEN 0 ELSE DeployedSum(bands, i - 1)) + bands[i].deployed + bands[i].retracted

CumulativeSums(s) ==
  IF s.thrown THEN s ELSE
  [s EXCEPT !.priorityBands =
              [i \in DOMAIN @ |-> [@[i] EXCEPT !.retractedSum = RetractedSum(s.priorityBands, i),
                                               !.deployedSum = DeployedSum(s.priorityBands, i)]],
            !.sumsSet = TRUE]

\* The lines of updatePower after the loop; this.standard[0].c.pGen
\* throws when the power plant slot is empty.
PowerTotals(s) ==
  IF s.thrown THEN s
  ELSE IF s.standard[0].c = Null
    THEN Throw(s)
    ELSE [s EXCEPT !.powerAvailable = C(s.standard[0].c).pGen,
                   !.powerRetracted = s.priorityBands[NumBands - 1].retractedSum,
                   !.powerDeployed = s.priorityBands[NumBands - 1].deployedSum,
                   !.powerSet = TRUE]

updatePower(s) == PowerTotals(CumulativeSums(s))

\* topSpeed and topBoost are outputs of calcSpeed and are not kept.
updateTopSpeed(s) == s

\* A shield strength that does not look at the slot's enabled flag.
updateShieldStrengthOfDisabled(s) ==
  LET sgSlot == findInternalByGroup(s, "sg")
  IN IF s.thrown THEN s ELSE
     [s EXCEPT !.shieldStrength =
        IF sgSlot /= NoRef
          THEN calcShieldStrength(HullMass, BaseShieldStrength, GetSlot(s, sgSlot).c, s.shieldMultiplier)
          ELSE 0]

updateShieldStrength(s) ==
  LET sgSlot == findInternalByGroup(s, "sg")
  IN IF s.thrown THEN s ELSE
     [s EXCEPT !.shieldStrength =
        IF sgSlot /= NoRef /\ Truthy(GetSlot(s, sgSlot).enabled)
          THEN calcShieldStrength(HullMass, BaseShieldStrength, GetSlot(s, sgSlot).c, s.shieldMultiplier)
          ELSE 0]

\* The ranges are outputs of calcJumpRange and calcTotalRange and are not
\* kept; reading fsd.maxfuel throws when the FSD slot is empty.
updateJumpStats(s) == IF ~s.thrown /\ s.standard[2].c = Null THEN Throw(s) ELSE s

\* updateStats takes the old component's contribution out (sign = -1) and
\* puts the new one's in (sign = 1), statement by statement: the switch
\* on the group, the cost, the power and DPS, the mass.
GroupStats(s, ref, c, sign) ==
  [s EXCEPT
     !.fuelCapacity = IF C(c).grp = "ft" THEN @ + sign * C(c).capacity ELSE @,
     !.cargoCapacity = IF C(c).grp = "cr" THEN @ + sign * C(c).capacity ELSE @,
     !.armourAdded = IF C(c).grp = "hr" THEN @ + sign * C(c).armouradd ELSE @,
     !.shieldMultiplier =
        IF C(c).grp = "sb"
          THEN @ + sign * (IF Truthy(GetSlot(s, ref).enabled) THEN C(c).shieldmul ELSE 0)
          ELSE @]

\* A cost update that leaves the component cost multiplier out.
CostStatsUndiscounted(s, ref, c, sign) ==
  IF GetSlot(s, ref).incCost /\ C(c).cost /= 0
    THEN [s EXCEPT !.totalCost = @ + sign * C(c).cost]
    ELSE s

CostStats(s, ref, c, sign) ==
  IF GetSlot(s, ref).incCost /\ C(c).cost /= 0
    THEN [s EXCEPT !.totalCost = @ + sign * C(c).cost * s.componentCostMultiplier]
    ELSE s

PowerStats(s, ref, c, sign) ==
  IF C(c).power /= 0 /\ Truthy(GetSlot(s, ref).enabled)
    THEN IF GetSlot(s, ref).priority \notin DOMAIN s.priorityBands
           THEN Throw(s)                   \* this.priorityBands[NaN][...]
           ELSE [AddToBand(s, GetSlot(s, ref).priority, powerUsageType(ref, c), sign * C(c).power)
                   EXCEPT !.totalDps = @ + sign * C(c).dps]
    ELSE s

\* A mass update that adds the mass when the component is taken out too.
MassStatsAdded(s, c, sign) == IF s.thrown THEN s ELSE [s EXCEPT !.unladenMass = @ + C(c).mass]

MassStats(s, c, sign) == IF s.thrown THEN s ELSE [s EXCEPT !.unladenMass = @ + sign * C(c).mass]

Contribution(s, ref, c, sign) ==
  IF c = Null \/ s.thrown THEN s
  ELSE MassStats(PowerStats(CostStats(GroupStats(s, ref, c, sign), ref, c, sign), ref, c, sign), c, sign)

\* A laden mass that leaves the cargo out.
LadenMassWithoutCargo(s) ==
  IF s.thrown THEN s
  ELSE [s EXCEPT !.ladenMass = s.unladenMass + s.fuelCapacity]

LadenMass(s) ==
  IF s.thrown THEN s
  ELSE [s EXCEPT !.ladenMass = s.unladenMass + s.cargoCapacity + s.fuelCapacity]

\* A powerChange that is set for the power plant only.
PowerChangePlantOnly(s, ref, n, old) == ref = PowerPlant

PowerChange(s, ref, n, old) ==
  \/ ref = PowerPlant
  \/ old /= Null /\ C(old).power /= 0 /\ Truthy(GetSlot(s, ref).enabled)
  \/ n /= Null /\ C(n).power /= 0 /\ Truthy(GetSlot(s, ref).enabled)

\* The end of updateStats: the recomputations, unless suppressed.
Recompute(s, powerChange, preventUpdate) ==
  IF s.thrown \/ preventUpdate THEN s
  ELSE updateShieldStrength(updateJumpStats(updateTopSpeed(
         IF powerChange THEN updatePower(s) ELSE s)))

updateStats(s, ref, n, old, preventUpdate) ==
  Recompute(LadenMass(Contribution(Contribution(s, ref, old, 0 - 1), ref, n, 1)),
            PowerChange(s, ref, n, old), preventUpdate)

\* ---------------------------------------------------------------- mutations

UniqueGroups == {"psg", "sg", "rf", "fs"}

\* use(), first half: another internal slot that holds a component of the
\* new component's ship-unique group is emptied, unless the updates are
\* suppressed.
EmptySlot(s, ref) ==
  IF s.thrown THEN s
  ELSE SetSlot(s, ref, [GetSlot(s, ref) EXCEPT !.id = Null, !.c = Null, !.discountedCost = 0])

\* A use() that vacates no other slot.
VacateNothing(s, ref, component, preventUpdate) == s

Vacate(s, ref, component, preventUpdate) ==
  LET similarSlot == findInternalByGroup(s, C(component).grp)
  IN IF /\ Cat(ref) = 2
        /\ component /= Null
        /\ C(component).grp \in UniqueGroups
        /\ ~preventUpdate
        /\ similarSlot /= NoRef
        /\ similarSlot /= ref
       THEN EmptySlot(updateStats(s, similarSlot, Null, GetSlot(s, similarSlot).c, FALSE), similarSlot)
       ELSE s

\* An install that records the catalog cost, whatever the multiplier.
InstallAtListCost(s, ref, id, component, preventUpdate) ==
  IF s.thrown THEN s
  ELSE updateStats(
         SetSlot(s, ref, [GetSlot(s, ref) EXCEPT
                            !.id = id, !.c = component,
                            !.discountedCost =
                               IF component /= Null THEN C(component).cost ELSE 0]),
         ref, component, GetSlot(s, ref).c, preventUpdate)

\* use(), second half: from `var oldComponent = slot.c` on.
Install(s, ref, id, component, preventUpdate) ==
  IF s.thrown THEN s
  ELSE updateStats(
         SetSlot(s, ref, [GetSlot(s, ref) EXCEPT
                            !.id = id, !.c = component,
                            !.discountedCost =
                               IF component /= Null /\ C(component).cost /= 0
                                 THEN C(component).cost * s.componentCostMultiplier
                                 ELSE 0]),
         ref, component, GetSlot(s, ref).c, preventUpdate)

\* A use() without the same-id test that treats the slot as empty.
useUntested(s, ref, id, component, preventUpdate) ==
  updateStats(SetSlot(s, ref, [GetSlot(s, ref) EXCEPT !.id = id, !.c = component]),
              ref, component, Null, preventUpdate)

use(s, ref, id, component, preventUpdate) ==
  IF GetSlot(s, ref).id = id THEN s
  ELSE Install(Vacate(s, ref, component, preventUpdate), ref, id, component, preventUpdate)

useBulkhead(s, index, preventUpdate) ==
  updateStats([s EXCEPT !.bulkheads.id = index,
                        !.bulkheads.c = ComponentsBulkheads(index),
                        !.bulkheads.discountedCost =
                           C(ComponentsBulkheads(index)).cost * s.componentCostMultiplier],
              Bulkheads, ComponentsBulkheads(index), s.bulkheads.c, preventUpdate)

\* A setCostIncluded that moves the total by the catalog cost.
setCostIncludedAtListCost(s, ref, included) ==
  SetSlot(IF GetSlot(s, ref).incCost /= included /\ GetSlot(s, ref).c /= Null
            THEN [s EXCEPT !.totalCost =
                    @ + (IF included THEN 1 ELSE 0 - 1) * C(GetSlot(s, ref).c).cost]
            ELSE s,
          ref, [GetSlot(s, ref) EXCEPT !.incCost = included])

setCostIncluded(s, ref, included) ==
  SetSlot(IF GetSlot(s, ref).incCost /= included /\ GetSlot(s, ref).c /= Null
            THEN [s EXCEPT !.totalCost =
                    @ + (IF included THEN 1 ELSE 0 - 1) * GetSlot(s, ref).discountedCost]
            ELSE s,
          ref, [GetSlot(s, ref) EXCEPT !.incCost = included])

\* setSlotEnabled, for a slot that holds component c and changes state:
\* the band, then shield multiplier or DPS, then updatePower.
\* A band update that adds the power whatever the sign.
EnabledPowerAdded(s, ref, c, sign) ==
  IF GetSlot(s, ref).priority \notin DOMAIN s.priorityBands
    THEN Throw(s)
    ELSE AddToBand(s, GetSlot(s, ref).priority, powerUsageType(ref, c), C(c).power)

EnabledPower(s, ref, c, sign) ==
  IF GetSlot(s, ref).priority \notin DOMAIN s.priorityBands
    THEN Throw(s)
    ELSE AddToBand(s, GetSlot(s, ref).priority, powerUsageType(ref, c), sign * C(c).power)

EnabledStats(s, c, sign) ==
  IF s.thrown THEN s
  ELSE IF C(c).grp \in {"sg", "psg"} THEN updateShieldStrength(s)
  ELSE IF C(c).grp = "sb"
    THEN updateShieldStrength([s EXCEPT !.shieldMultiplier = @ + sign * C(c).shieldmul])
  ELSE IF C(c).dps /= 0 THEN [s EXCEPT !.totalDps = @ + sign * C(c).dps]
  ELSE s

setSlotEnabled(s, ref, enabled) ==
  IF ~LooseNeq(GetSlot(s, ref).enabled, enabled) THEN s
  ELSE IF GetSlot(s, ref).c = Null
    THEN SetSlot(s, ref, [GetSlot(s, ref) EXCEPT !.enabled = enabled])
  ELSE updatePower(
         EnabledStats(EnabledPower(SetSlot(s, ref, [GetSlot(s, ref) EXCEPT !.enabled = enabled]),
                                   ref, GetSlot(s, ref).c, IF Truthy(enabled) THEN 1 ELSE 0 - 1),
                      GetSlot(s, ref).c, IF Truthy(enabled) THEN 1 ELSE 0 - 1))

\* changePriority returns true exactly when newPriority is in range.
InRange(newPriority) == newPriority >= 0 /\ newPriority < NumBands

\* The power of component c moves from band oldPriority to newPriority;
\* slot.c.power throws on an empty slot.
\* A move that leaves the power in the old band as well.
MovePowerCopied(s, ref, c, oldPriority, newPriority) ==
  IF c = Null \/ oldPriority \notin DOMAIN s.priorityBands
    THEN Throw(s)
    ELSE updatePower(AddToBand(s, newPriority, powerUsageType(ref, c), C(c).power))

MovePower(s, ref, c, oldPriority, newPriority) ==
  IF c = Null \/ oldPriority \notin DOMAIN s.priorityBands
    THEN Throw(s)
    ELSE updatePower(AddToBand(AddToBand(s, oldPriority, powerUsageType(ref, c), 0 - C(c).power),
                               newPriority, powerUsageType(ref, c), C(c).power))

\* A changePriority that stores the priority before it tests the range.
changePriorityStored(s, ref, newPriority) ==
  IF ~InRange(newPriority) THEN SetSlot(s, ref, [GetSlot(s, ref) EXCEPT !.priority = newPriority])
  ELSE IF ~Truthy(GetSlot(s, ref).enabled)
    THEN SetSlot(s, ref, [GetSlot(s, ref) EXCEPT !.priority = newPriority])
  ELSE MovePower(SetSlot(s, ref, [GetSlot(s, ref) EXCEPT !.priority = newPriority]),
                 ref, GetSlot(s, ref).c, GetSlot(s, ref).priority, newPriority)

changePriority(s, ref, newPriority) ==
  IF ~InRange(newPriority) THEN s
  ELSE IF ~Truthy(GetSlot(s, ref).enabled)
    THEN SetSlot(s, ref, [GetSlot(s, ref) EXCEPT !.priority = newPriority])
  ELSE MovePower(SetSlot(s, ref, [GetSlot(s, ref) EXCEPT !.priority = newPriority]),
                 ref, GetSlot(s, ref).c, GetSlot(s, ref).priority, newPriority)

CostList == {Hull, Bulkheads} \cup SlotRefs

\* applyDiscounts: an item of costList after the loop, and what it adds
\* to the total.
Discounted(s, ref, shipCostMultiplier, componentCostMultiplier) ==
  IF GetSlot(s, ref).c /= Null /\ C(GetSlot(s, ref).c).cost /= 0
    THEN [GetSlot(s, ref) EXCEPT !.discountedCost =
            C(GetSlot(s, ref).c).cost
              * (IF ref = Hull THEN shipCostMultiplier ELSE componentCostMultiplier)]
    ELSE GetSlot(s, ref)

RECURSIVE DiscountedTotal(_, _)
DiscountedTotal(s, refs) ==
  IF refs = {} THEN 0
  ELSE LET r == CHOOSE x \in refs : TRUE
       IN (IF GetSlot(s, r).c /= Null /\ C(GetSlot(s, r).c).cost /= 0 /\ GetSlot(s, r).incCost
             THEN GetSlot(s, r).discountedCost ELSE 0)
          + DiscountedTotal(s, refs \ {r})

DiscountItems(s, m1, m2) ==
  [s EXCEPT !.c = Discounted(s, Hull, m1, m2),
            !.bulkheads = Discounted(s, Bulkheads, m1, m2),
            !.standard = [i \in DOMAIN @ |-> Discounted(s, Ref("standard", i), m1, m2)],
            !.hardpoints = [i \in DOMAIN @ |-> Discounted(s, Ref("hardpoints", i), m1, m2)],
            !.internal = [i \in DOMAIN @ |-> Discounted(s, Ref("internal", i), m1, m2)],
            !.shipCostMultiplier = m1,
            !.componentCostMultiplier = m2]

SetTotalCost(s) == [s EXCEPT !.totalCost = DiscountedTotal(s, CostList)]

applyDiscounts(s, shipCostMultiplier, componentCostMultiplier) ==
  SetTotalCost(DiscountItems(s, shipCostMultiplier, componentCostMultiplier))

\* ---------------------------------------------------------------- buildWith

\* A JavaScript array argument (or null): v holds the entries, entry i of
\* the source at v[i + 1]; an index past the end reads undefined.
NullArr == [isNull |-> TRUE, v |-> <<>>]
Arr(v) == [isNull |-> FALSE, v |-> v]
Has(arr, i) == ~arr.isNull /\ i + 1 \in DOMAIN arr.v

\* enabled ? enabled[i] * 1 : true
EnabledEntry(enabled, i) ==
  IF enabled.isNull THEN EnTrue
  ELSE IF ~Has(enabled, i) THEN EnNaN
  ELSE IF enabled.v[i + 1] = 1 THEN EnTrue ELSE EnFalse

\* priorities && priorities[i] ? priorities[i] * 1 : 0
PriorityEntry(priorities, i) == IF Has(priorities, i) THEN priorities.v[i + 1] ELSE 0

\* A component selection (comps), or null: the ids by slot group, Null
\* where the selection leaves a slot empty.
NullComps == [isNull |-> TRUE, bulkheads |-> 0, standard |-> <<>>, hardpoints |-> <<>>, internal |-> <<>>]
Comps(bulkheads, standard, hardpoints, internal) ==
  [isNull |-> FALSE, bulkheads |-> bulkheads, standard |-> standard,
   hardpoints |-> hardpoints, internal |-> internal]

\* The three slot loops of buildWith, in the order the source runs them;
\* ArrIndex is the slot's index in priorities and enabled.
BuildOrder ==
  [i \in 1..Len(StandardLayout) |-> Ref("standard", i - 1)]
  \o [i \in 1..Len(HardpointLayout) |-> Ref("hardpoints", i - 1)]
  \o [i \in 1..Len(InternalLayout) |-> Ref("internal", i - 1)]

ArrIndex(ref) ==
  CASE ref.grp = "standard" -> ref.i + 1
    [] ref.grp = "hardpoints" -> Len(StandardLayout) + 1 + ref.i
    [] ref.grp = "internal" -> Len(StandardLayout) + 1 + Len(HardpointLayout) + ref.i

CompsId(comps, ref) ==
  CASE ref.grp = "standard" -> comps.standard[ref.i + 1]
    [] ref.grp = "hardpoints" -> comps.hardpoints[ref.i + 1]
    [] ref.grp = "internal" -> comps.internal[ref.i + 1]

Lookup(ref, id) ==
  CASE ref.grp = "standard" -> ComponentsStandard(ref.i, id)
    [] ref.grp = "hardpoints" -> ComponentsHardpoints(id)
    [] ref.grp = "internal" -> ComponentsInternal(id)

\* One pass of a slot loop: reset the slot, then install the selection's
\* component with the updates suppressed.
BuildSlot(s, ref, comps, priorities, enabled) ==
  IF comps.isNull
    THEN SetSlot(s, ref, [GetSlot(s, ref) EXCEPT
                            !.enabled = EnabledEntry(enabled, ArrIndex(ref)),
                            !.priority = PriorityEntry(priorities, ArrIndex(ref)),
                            !.id = Null, !.c = Null, !.discountedCost = 0])
    ELSE use(SetSlot(s, ref, [GetSlot(s, ref) EXCEPT
                                !.enabled = EnabledEntry(enabled, ArrIndex(ref)),
                                !.priority = PriorityEntry(priorities, ArrIndex(ref)),
                                !.id = Null, !.c = Null, !.discountedCost = 0]),
             ref, CompsId(comps, ref), Lookup(ref, CompsId(comps, ref)), TRUE)

RECURSIVE BuildSlots(_, _, _, _, _)
BuildSlots(s, k, comps, priorities, enabled) ==
  IF k > Len(BuildOrder) \/ s.thrown THEN s
  ELSE BuildSlots(BuildSlot(s, BuildOrder[k], comps, priorities, enabled), k + 1,
                  comps, priorities, enabled)

\* buildWith up to the bulkheads: the reset of the cumulative stats.
ResetStats(s) ==
  [s EXCEPT !.fuelCapacity = 0, !.cargoCapacity = 0, !.ladenMass = 0,
            !.armourAdded = 0, !.shieldMultiplier = 1,
            !.totalCost = IF s.c.incCost THEN s.c.discountedCost ELSE 0,
            !.unladenMass = HullMass, !.totalDps = 0,
            !.bulkheads.c = Null,
            !.built = TRUE]

\* priorities ? priorities[0] * 1 : 0
HatchPriority(priorities) ==
  IF priorities.isNull THEN 0
  ELSE IF Has(priorities, 0) THEN priorities.v[1] ELSE PriorityNaN

\* The cargo hatch and the reset of the bands.
BuildHatch(s, priorities, enabled) ==
  [s EXCEPT !.cargoHatch.priority = HatchPriority(priorities),
            !.cargoHatch.enabled = EnabledEntry(enabled, 0),
            !.priorityBands = [i \in DOMAIN @ |->
                [@[i] EXCEPT !.deployed = 0, !.retracted = 0, !.retOnly = 0]]]

HatchPower(s) ==
  IF Truthy(s.cargoHatch.enabled)
    THEN IF s.cargoHatch.priority \notin DOMAIN s.priorityBands
           THEN Throw(s)                   \* bands[NaN].retracted
           ELSE AddToBand(s, s.cargoHatch.priority, "retracted", C(s.cargoHatch.c).power)
    ELSE s

\* The updates at the end of buildWith, made when comps is given.
BuildUpdates(s, comps) ==
  IF comps.isNull \/ s.thrown THEN s
  ELSE updateTopSpeed(updateShieldStrength(updateJumpStats(updatePower(s))))

buildWith(s, comps, priorities, enabled) ==
  BuildUpdates(
    BuildSlots(
      HatchPower(BuildHatch(useBulkhead(ResetStats(s), IF comps.isNull THEN 0 ELSE comps.bulkheads, TRUE),
                            priorities, enabled)),
      1, comps, priorities, enabled),
    comps)

\* ---------------------------------------------------------------- optimizeMass

\* The catalog's selections (the ship's ComponentSet): the lightest
\* thruster that can move the given laden mass, the lightest power plant
\* that generates the given power, the lightest power distributor that can
\* boost, and the id of a slot's component of a given rating
\* (maxClass + rating).  The heaviest is the answer when none is enough.
ThrusterMaxMass == 14
lightestThruster(ladenMass) == IF ladenMass <= ThrusterMaxMass THEN "th" ELSE "thB"
Enough(powerUsed) == {id \in PowerPlantIds : C(id).pGen >= powerUsed}
lightestPowerPlant(powerUsed) ==
  IF Enough(powerUsed) = {} THEN "ppB"
  ELSE CHOOSE id \in Enough(powerUsed) : \A other \in Enough(powerUsed) : C(id).mass <= C(other).mass
lightestPowerDist == "pd"
RatedId(i) == StandardIds[i + 1]

Max(a, b) == IF a >= b THEN a ELSE b

\* emptyHardpoints and emptyInternal: use(slot, null, null) on the slots
\* of a group, from the last to the first.
RECURSIVE EmptyFrom(_, _, _)
EmptyFrom(s, grp, i) ==
  IF i < 0 THEN s
  ELSE EmptyFrom(use(s, Ref(grp, i), Null, Null, FALSE), grp, i - 1)
emptyHardpoints(s) == EmptyFrom(s, "hardpoints", Len(HardpointLayout) - 1)
emptyInternal(s) == EmptyFrom(s, "internal", Len(InternalLayout) - 1)

\* useLightestStandard without overrides, up to the loop: bulkheads 0,
\* then FSD, life support, sensors and power distributor.
UseRated(s, i, id) == use(s, Ref("standard", i), id, ComponentsStandard(i, id), FALSE)
LightestFixed(s) ==
  UseRated(UseRated(UseRated(UseRated(useBulkhead(s, 0, FALSE), 2, RatedId(2)),
                             3, RatedId(3)),
                    5, RatedId(5)),
           4, lightestPowerDist)

\* One pass of the do-while loop: the thruster for the laden mass, then
\* the power plant for the larger of the two draws; `updated` is whether
\* either was exchanged.
ThrusterChanges(s) == ~s.thrown /\ lightestThruster(s.ladenMass) /= s.standard[1].id
ThrusterPass(s) ==
  IF ThrusterChanges(s) THEN UseRated(s, 1, lightestThruster(s.ladenMass)) ELSE s
PowerNeeded(s) == Max(s.powerRetracted, s.powerDeployed)
PowerPlantChanges(s) == ~s.thrown /\ lightestPowerPlant(PowerNeeded(s)) /= s.standard[0].id
\* A selection that installs the heaviest power plant.
PowerPlantPassHeaviest(s) == IF PowerPlantChanges(s) THEN UseRated(s, 0, "ppB") ELSE s
PowerPlantPass(s) ==
  IF PowerPlantChanges(s) THEN UseRated(s, 0, lightestPowerPlant(PowerNeeded(s))) ELSE s
Updated(s) == ThrusterChanges(s) \/ PowerPlantChanges(ThrusterPass(s))

\* The loop, cut after MaxPasses passes that exchanged something: the
\* ship on which the loop ends, or the ship the cut leaves, on which
\* Updated still holds.
\* (CHOOSE r \in {F(x) : x \in {e}} : TRUE is F(e) with e evaluated
\* once.)
RECURSIVE LightestLoop(_, _)
LightestLoop(s, k) ==
  IF k = 0 \/ ~Updated(s) THEN s
  ELSE CHOOSE r \in {LightestLoop(pass, k - 1) : pass \in {PowerPlantPass(ThrusterPass(s))}} : TRUE

useLightestStandard(s) ==
  CHOOSE r \in {LightestLoop(fixed, MaxPasses) : fixed \in {LightestFixed(s)}} : TRUE
optimizeMass(s) ==
  CHOOSE r \in {useLightestStandard(emptied) : emptied \in {emptyInternal(emptyHardpoints(s))}} : TRUE

\* ---------------------------------------------------------------- useUtility, useWeapon

\* Components.findHardpoint(group, size, ...): the hardpoint component of
\* a group and a size (0 for a utility), or null; the pulse lasers come in
\* sizes 1 and 2, and no missile rack ("mr") is on sale.
findHardpoint(group, size) ==
  CASE group = "sb" /\ size = 0 -> "sb"
    [] group = "pl" /\ size = 1 -> "w6"
    [] group = "pl" /\ size = 2 -> "w7"
    [] OTHER -> Null

\* useUtility: the hardpoints from the last to the first; component.id
\* throws when findHardpoint found nothing.
RECURSIVE useUtilityFrom(_, _, _, _)
useUtilityFrom(s, i, component, clobber) ==
  IF i < 0 \/ s.thrown THEN s
  ELSE IF (clobber \/ s.hardpoints[i].c = Null) /\ s.hardpoints[i].maxClass = 0
    THEN IF component = Null THEN Throw(s)
         ELSE CHOOSE r \in {useUtilityFrom(next, i - 1, component, clobber) :
                              next \in {use(s, Ref("hardpoints", i), component, component, FALSE)}} : TRUE
  ELSE useUtilityFrom(s, i - 1, component, clobber)
useUtility(s, group, clobber) ==
  useUtilityFrom(s, Len(HardpointLayout) - 1, findHardpoint(group, 0), clobber)

\* A size search that installs over what the slot holds.
RECURSIVE SizeSearchOverwriting(_, _, _, _, _)
SizeSearchOverwriting(s, i, group, size, clobber) ==
  IF findHardpoint(group, size) /= Null
    THEN use(s, Ref("hardpoints", i), findHardpoint(group, size), findHardpoint(group, size), FALSE)
  ELSE IF size - 1 > 0 THEN SizeSearchOverwriting(s, i, group, size - 1, clobber)
  ELSE s

\* useWeapon, the do-while loop on one weapon hardpoint: from the slot's
\* maxClass down while no component is found.
RECURSIVE SizeSearch(_, _, _, _, _)
SizeSearch(s, i, group, size, clobber) ==
  IF (clobber \/ s.hardpoints[i].c = Null) /\ findHardpoint(group, size) /= Null
    THEN use(s, Ref("hardpoints", i), findHardpoint(group, size), findHardpoint(group, size), FALSE)
  ELSE IF findHardpoint(group, size) = Null /\ size - 1 > 0
    THEN SizeSearch(s, i, group, size - 1, clobber)
  ELSE s

RECURSIVE useWeaponFrom(_, _, _, _)
useWeaponFrom(s, i, group, clobber) ==
  IF i < 0 \/ s.thrown THEN s
  ELSE IF s.hardpoints[i].maxClass /= 0
    THEN CHOOSE r \in {useWeaponFrom(next, i - 1, group, clobber) :
                         next \in {SizeSearch(s, i, group, s.hardpoints[i].maxClass, clobber)}} : TRUE
  ELSE useWeaponFrom(s, i - 1, group, clobber)
useWeapon(s, group, clobber) == useWeaponFrom(s, Len(HardpointLayout) - 1, group, clobber)

\* ---------------------------------------------------------------- getSlotStatus

\* The status codes getSlotStatus returns.
NoStatus == 0
Disabled == 1
Offline == 2
Online == 3

\* A getSlotStatus that compares with > where the source has >=.
getSlotStatusStrict(s, ref, deployed) ==
  IF GetSlot(s, ref).c = Null THEN NoStatus
  ELSE IF ~Truthy(GetSlot(s, ref).enabled) THEN Disabled
  ELSE IF deployed
    THEN IF s.priorityBands[GetSlot(s, ref).priority].deployedSum > s.powerAvailable
           THEN Offline ELSE Online
  ELSE IF Cat(ref) = 1 /\ ~C(GetSlot(s, ref).c).passive THEN NoStatus
  ELSE IF s.priorityBands[GetSlot(s, ref).priority].retractedSum > s.powerAvailable
         THEN Offline ELSE Online

\* A sum or powerAvailable that updatePower has not assigned yet is
\* undefined, and >= is false.
getSlotStatus(s, ref, deployed) ==
  IF GetSlot(s, ref).c = Null THEN NoStatus
  ELSE IF ~Truthy(GetSlot(s, ref).enabled) THEN Disabled
  ELSE IF deployed
    THEN IF /\ s.sumsSet /\ s.powerSet
            /\ s.priorityBands[GetSlot(s, ref).priority].deployedSum >= s.powerAvailable
           THEN Offline ELSE Online
  ELSE IF Cat(ref) = 1 /\ ~C(GetSlot(s, ref).c).passive THEN NoStatus
  ELSE IF /\ s.sumsSet /\ s.powerSet
          /\ s.priorityBands[GetSlot(s, ref).priority].retractedSum >= s.powerAvailable
         THEN Offline ELSE Online

\* ---------------------------------------------------------------- inputs

\* The component selections buildWith is given: every one has a power
\* plant and a frame shift drive.
ScenarioBuild == Comps(0, StandardIds, <<"w6", "w6", Null>>, <<Null, Null>>)
DefaultBuild == Comps(1, StandardIds, <<"w6", Null, "sb">>, <<"sg", "cr">>)
TwoShieldsBuild == Comps(0, StandardIds, <<Null, Null, Null>>, <<"sg", "psg">>)

\* priorities and enabled, entry 0 for the cargo hatch, then the 7
\* standard, the 3 hardpoint and the 2 internal slots: no arrays; arrays
\* that leave only the power plant and the first two hardpoints enabled,
\* the second hardpoint in tier 1; the same arrays cut before the first
\* hardpoint.
NoArrays == <<NullArr, NullArr>>
ScenarioArrays ==
  <<Arr(<<0, 0, 0, 0, 0, 0, 0, 0, 0, 1, 0, 1, 1>>), Arr(<<0, 1, 0, 0, 0, 0, 0, 0, 1, 1, 0, 1, 0>>)>>
ShortArrays ==
  <<Arr(<<0, 0, 0, 0, 0, 0, 0, 0>>), Arr(<<0, 1, 0, 0, 0, 0, 0, 0>>)>>

\* The calls of buildWith: a selection with its arrays.
Builds ==
  {<<ScenarioBuild, ScenarioArrays>>, <<DefaultBuild, NoArrays>>,
   <<DefaultBuild, ShortArrays>>, <<TwoShieldsBuild, NoArrays>>}

\* The slots the operations are called on, and their arguments.  The
\* power plant is only exchanged for another; an internal slot is also
\* given an id the catalog does not know.
FuelTank == Ref("standard", 6)
UseRefs == {PowerPlant, FuelTank, Ref("hardpoints", 0), Ref("hardpoints", 2)} \cup InternalRefs
UseIds(ref) ==
  CASE ref = PowerPlant -> {"pp", "ppB"}
    [] ref = FuelTank -> {"ft", Null}
    [] ref.grp = "hardpoints" -> IF GetSlot(Ship, ref).maxClass > 0 THEN {"w6", Null} ELSE {"sb", Null}
    [] ref.grp = "internal" -> InternalIds \cup {Null, UnknownId}

EnableRefs == {CargoHatch, Ref("hardpoints", 0), Ref("hardpoints", 2), Ref("internal", 0)}
PriorityRefs == {CargoHatch, Ref("hardpoints", 0), Ref("internal", 0)}
NewPriorities == {0 - 1, 0, 1, NumBands}
CostRefs == {Hull, Ref("hardpoints", 0), Ref("internal", 0)}
MultiplierInputs == {<<1, 2>>, <<2, 3>>}
BulkheadIndexes == {0, 1}

\* ---------------------------------------------------------------- Persist

Undefined == "undefined"
ReferenceError == "ReferenceError"

\* Ship ids, build names and serialized codes.
SavedShipIds == {"anaconda", "sidewinder"}
SavedNames == {"cargo", "combat"}
SavedCodes == {"code1", "code2"}

\* this.builds: for a ship id its collection, which is undefined (defined
\* FALSE) or an object that gives Undefined for a name it does not hold.
\* localStorage has no item (item FALSE) or holds the collections last
\* written (JSON keeps no undefined property).
NoCollection == [defined |-> FALSE, of |-> [name \in SavedNames |-> Undefined]]
EmptyBuilds == [shipId \in SavedShipIds |-> NoCollection]
EmptyStorage == [item |-> FALSE, builds |-> EmptyBuilds]

\* The service as its constructor leaves it; prev holds this.builds as
\* the last call found it.
NewPersist(storage) ==
  [builds |-> IF storage.item THEN storage.builds ELSE EmptyBuilds,
   storage |-> storage,
   prev |-> IF storage.item THEN storage.builds ELSE EmptyBuilds,
   op |-> "new", shipId |-> Null, name |-> Null, ret |-> Undefined]

SavedBuilds(p, shipId, name, code) ==
  [p.builds EXCEPT ![shipId] = [defined |-> TRUE, of |-> [@.of EXCEPT ![name] = code]]]

saveBuild(p, shipId, name, code) ==
  [p EXCEPT !.builds = SavedBuilds(p, shipId, name, code),
            !.storage = [item |-> TRUE, builds |-> SavedBuilds(p, shipId, name, code)]]

getBuild(p, shipId, name) ==
  IF p.builds[shipId].defined THEN p.builds[shipId].of[name] ELSE Null

\* `build` is not declared anywhere: reading it throws a ReferenceError
\* before anything is deleted.
deleteBuild(p, shipId, name) == p

\* What a call of the service leaves behind.
PersistCall(p, value, op, shipId, name) ==
  /\ persist' = [p EXCEPT !.prev = persist.builds, !.op = op, !.shipId = shipId,
                          !.name = name, !.ret = value]
  /\ UNCHANGED <<ship, before, ret, last, last2, ops>>

SaveBuild(shipId, name, code) ==
  /\ code \in SavedCodes
  /\ PersistCall(saveBuild(persist, shipId, name, code), Undefined, "saveBuild", shipId, name)

GetBuild(shipId, name) ==
  /\ name \in SavedNames
  /\ PersistCall(persist, getBuild(persist, shipId, name), "getBuild", shipId, name)

DeleteBuild(shipId, name) ==
  /\ name \in SavedNames
  /\ PersistCall(deleteBuild(persist, shipId, name), ReferenceError, "deleteBuild", shipId, name)

\* The page is loaded again: the service is constructed from localStorage.
Construct ==
  /\ persist.op /= "new"
  /\ PersistCall(NewPersist(persist.storage), Undefined, "new", Null, Null)

\* ---------------------------------------------------------------- actions

This == "this"
TypeError == "TypeError"

\* The ship a call starts from: the exception of the call before is gone.
Cur == [ship EXCEPT !.thrown = FALSE]

\* What a call leaves behind: the ship, the value returned (TypeError
\* when the call threw), and the call itself with the id the slot held.
Call(s, value, op, ref, id, n) ==
  /\ ops < MaxOps
  /\ ops' = ops + 1
  /\ ship' = s
  /\ before' = Cur
  /\ ret' = IF s.thrown THEN TypeError ELSE value
  /\ last' = [op |-> op, ref |-> ref, id |-> id, n |-> n,
              old |-> IF ref \in SlotRefs THEN GetSlot(Cur, ref).id ELSE Null]
  /\ last2' = last
  /\ persist' = persist

NoCall == [op |-> "new", ref |-> NoRef, id |-> Null, n |-> 0, old |-> Null]

Init ==
  /\ ship = Ship
  /\ before = Ship
  /\ ret = This
  /\ last = NoCall
  /\ last2 = NoCall
  /\ ops = 0
  /\ persist = NewPersist(EmptyStorage)

BuildWith(comps, priorities, enabled) ==
  /\ ~comps.isNull
  /\ Call(buildWith(Cur, comps, priorities, enabled), This, "buildWith", NoRef, Null,
          Len(enabled.v))

Use(ref, id) ==
  /\ ship.built
  /\ Call(use(Cur, ref, id, Lookup(ref, id), FALSE), This, "use", ref, id, 0)

UseBulkhead(index) ==
  /\ ship.built
  /\ Call(useBulkhead(Cur, index, FALSE), This, "useBulkhead", Bulkheads, Null, index)

SetCostIncluded(ref, included) ==
  /\ ship.built
  /\ Call(setCostIncluded(Cur, ref, included), This, "setCostIncluded", ref, Null, IF included THEN 1 ELSE 0)

SetSlotEnabled(ref, enabled) ==
  /\ ship.built
  /\ Call(setSlotEnabled(Cur, ref, enabled), This, "setSlotEnabled", ref, enabled, 0)

ChangePriority(ref, newPriority) ==
  /\ ship.built
  /\ Call(changePriority(Cur, ref, newPriority),
          IF InRange(newPriority) THEN "true" ELSE "false",
          "changePriority", ref, Null, newPriority)

ApplyDiscounts(shipCostMultiplier, componentCostMultiplier) ==
  /\ ship.built
  /\ Call(applyDiscounts(Cur, shipCostMultiplier, componentCostMultiplier), This,
          "applyDiscounts", NoRef, Null, shipCostMultiplier)

\* useUtility(group, rating, clobber) and useWeapon(group, mount, clobber,
\* missile); last.id is the group and last.n is 1 for clobber = true.
UtilityInputs == {<<"sb", FALSE>>, <<"sb", TRUE>>}
WeaponInputs == {<<"pl", FALSE>>, <<"pl", TRUE>>, <<"mr", FALSE>>}
UseUtility(group, clobber) ==
  /\ ship.built /\ ops < MaxOps
  /\ \E s \in {useUtility(Cur, group, clobber)} :
       Call(s, This, "useUtility", NoRef, group, IF clobber THEN 1 ELSE 0)

UseWeapon(group, clobber) ==
  /\ ship.built /\ ops < MaxOps
  /\ \E s \in {useWeapon(Cur, group, clobber)} :
       Call(s, This, "useWeapon", NoRef, group, IF clobber THEN 1 ELSE 0)

\* optimizeMass(); the call has not returned ("running") when the loop is
\* cut while it still exchanges components.
Running == "running"
OptimizeMass ==
  /\ ship.built /\ ops < MaxOps
  /\ \E s \in {optimizeMass(Cur)} :
       Call(s, IF Updated(s) THEN Running ELSE This, "optimizeMass", NoRef, Null, 0)

Next ==
  \/ \E build \in Builds : BuildWith(build[1], build[2][1], build[2][2])
  \/ \E ref \in UseRefs : \E id \in UseIds(ref) : Use(ref, id)
  \/ \E index \in BulkheadIndexes : UseBulkhead(index)
  \/ \E ref \in CostRefs, included \in BOOLEAN : SetCostIncluded(ref, included)
  \/ \E ref \in EnableRefs, enabled \in {EnTrue, EnFalse} : SetSlotEnabled(ref, enabled)
  \/ \E ref \in PriorityRefs, newPriority \in NewPriorities : ChangePriority(ref, newPriority)
  \/ \E m \in MultiplierInputs : ApplyDiscounts(m[1], m[2])
  \/ OptimizeMass
  \/ \E in \in UtilityInputs : UseUtility(in[1], in[2])
  \/ \E in \in WeaponInputs : UseWeapon(in[1], in[2])

Spec == Init /\ [][Next]_vars

\* The Persist service alone, next to a ship that is not touched.
PersistNext ==
  \/ \E shipId \in SavedShipIds, name \in SavedNames, code \in SavedCodes :
       SaveBuild(shipId, name, code)
  \/ \E shipId \in SavedShipIds, name \in SavedNames : GetBuild(shipId, name)
  \/ \E shipId \in SavedShipIds, name \in SavedNames : DeleteBuild(shipId, name)
  \/ Construct

PersistSpec == Init /\ [][PersistNext]_vars

\* ---------------------------------------------------------------- properties

Tiers == 0..(NumBands - 1)
Band(i) == ship.priorityBands[i]

\* The aggregates a rebuild is compared on.
Aggregates(s) ==
  [totalCost |-> s.totalCost, unladenMass |-> s.unladenMass, ladenMass |-> s.ladenMass,
   fuelCapacity |-> s.fuelCapacity, cargoCapacity |-> s.cargoCapacity,
   priorityBands |-> s.priorityBands,
   shieldMultiplier |-> s.shieldMultiplier, totalDps |-> s.totalDps]

\* The arguments that describe ship s: the ids its slots hold, their
\* priorities and their enabled flags (1 for a true flag, 0 otherwise).
Ids(slots) == [i \in 1..Len(slots) |-> GetSlot(Cur, slots[i]).id]
CurrentComps ==
  Comps(Cur.bulkheads.id,
        Ids([i \in 1..Len(StandardLayout) |-> Ref("standard", i - 1)]),
        Ids([i \in 1..Len(HardpointLayout) |-> Ref("hardpoints", i - 1)]),
        Ids([i \in 1..Len(InternalLayout) |-> Ref("internal", i - 1)]))
CurrentPriorities ==
  Arr(<<Cur.cargoHatch.priority>> \o [k \in 1..Len(BuildOrder) |-> GetSlot(Cur, BuildOrder[k]).priority])
CurrentEnabled ==
  Arr(<<IF Truthy(Cur.cargoHatch.enabled) THEN 1 ELSE 0>>
      \o [k \in 1..Len(BuildOrder) |-> IF Truthy(GetSlot(Cur, BuildOrder[k]).enabled) THEN 1 ELSE 0])
Rebuilt == buildWith(Cur, CurrentComps, CurrentPriorities, CurrentEnabled)

\* C1: after any sequence of non-suppressed mutations on a built ship,
\* buildWith on the current slot contents, priorities and enabled flags
\* yields the same totalCost, masses, capacities, raw and cumulative
\* band sums, shieldMultiplier and totalDps as the ship holds.
RebuildEquivalence ==
  ship.built => Aggregates(Rebuilt) = Aggregates(ship)

\* The ship-unique families, and the internal slots of s that hold a
\* component of family fam.
Families == {{"sg", "psg"}, {"rf"}, {"fs"}}
Holders(s, fam) ==
  {i \in DOMAIN s.internal : s.internal[i].c /= Null /\ C(s.internal[i].c).grp \in fam}

\* C2: in every state reachable through rebuilds and installs at most
\* one internal slot holds a component of each ship-unique group
\* (sg/psg one family, rf, fs).
UniquePerShip ==
  \A fam \in Families : Cardinality(Holders(ship, fam)) <= 1

\* C2, amended: a use() outside a rebuild keeps every ship-unique family
\* in at most one internal slot when it was in at most one before the
\* call; buildWith installs with the updates suppressed and keeps two
\* components of a family that its selection lists.
UniqueKeptByUse ==
  last.op = "use" =>
    \A fam \in Families :
      Cardinality(Holders(before, fam)) <= 1 => Cardinality(Holders(ship, fam)) <= 1

\* A use() has put a shield generator into one internal slot and taken
\* the one the other internal slot held out.
UniqueVacated ==
  /\ last.op = "use" /\ ret = This /\ last.ref \in InternalRefs
  /\ \E fam \in Families :
       /\ Holders(before, fam) = {1 - last.ref.i}
       /\ Holders(ship, fam) = {last.ref.i}

\* The power the tiers 0..tier draw, from the raw sums, and the output
\* of the installed power plant.
Draw(tier, deployed) ==
  IF deployed THEN DeployedSum(ship.priorityBands, tier)
  ELSE RetractedSum(ship.priorityBands, tier)
PlantOutput == C(ship.standard[0].c).pGen

Occupied(ref) == GetSlot(ship, ref).c /= Null
Enabled(ref) == Truthy(GetSlot(ship, ref).enabled)
StatusRefs == SlotRefs \cup {CargoHatch}

\* The scenario: a ship just built with a power plant of output 10, a
\* weapon drawing 6 in tier 0 and one drawing 6 in tier 1, and nothing
\* else that draws power.
Weapon0 == Ref("hardpoints", 0)
Weapon1 == Ref("hardpoints", 1)
Scenario ==
  /\ last.op = "buildWith" /\ PlantOutput = 10
  /\ \A w \in {Weapon0, Weapon1} :
       Occupied(w) /\ Enabled(w) /\ C(GetSlot(ship, w).c).power = 6
  /\ GetSlot(ship, Weapon0).priority = 0 /\ GetSlot(ship, Weapon1).priority = 1
  /\ \A ref \in StatusRefs \ {Weapon0, Weapon1} :
       Occupied(ref) /\ Enabled(ref) => C(GetSlot(ship, ref).c).power = 0
ScenarioStatus ==
  Scenario => /\ getSlotStatus(ship, Weapon0, TRUE) = Online
              /\ getSlotStatus(ship, Weapon1, TRUE) = Offline

\* C3: an occupied, enabled slot is reported online exactly when the
\* cumulative draw of its tier and the tiers above it (deployed or
\* retracted) is strictly less than the power plant's output, and
\* offline otherwise; in the scenario the tier-0 weapon is online and
\* the tier-1 weapon is offline when deployed.
OnlineIffDrawBelowOutput ==
  /\ ship.built =>
       \A ref \in StatusRefs, deployed \in BOOLEAN :
         Occupied(ref) /\ Enabled(ref) =>
           getSlotStatus(ship, ref, deployed) =
             IF Draw(GetSlot(ship, ref).priority, deployed) < PlantOutput THEN Online ELSE Offline
  /\ ScenarioStatus

\* C3, amended: the same, except that an active (not passive) hardpoint
\* has no status while the hardpoints are retracted.
OnlineIffDrawBelowOutputButActiveRetracted ==
  /\ ship.built =>
       \A ref \in StatusRefs, deployed \in BOOLEAN :
         Occupied(ref) /\ Enabled(ref) =>
           getSlotStatus(ship, ref, deployed) =
             IF ~deployed /\ ref \in HardpointRefs /\ ~C(GetSlot(ship, ref).c).passive
               THEN NoStatus
             ELSE IF Draw(GetSlot(ship, ref).priority, deployed) < PlantOutput
               THEN Online ELSE Offline
  /\ ScenarioStatus

\* The scenario's ship, with the two weapons online and offline.
ScenarioReached ==
  /\ Scenario
  /\ getSlotStatus(ship, Weapon0, TRUE) = Online
  /\ getSlotStatus(ship, Weapon1, TRUE) = Offline
  /\ getSlotStatus(ship, Weapon0, FALSE) = NoStatus

\* C4: for all tiers i < j the cumulative sums do not decrease:
\* retractedSum[j] >= retractedSum[i] and deployedSum[j] >= deployedSum[i]
\* (no tier's raw sum is negative), after any sequence of rebuilds,
\* installs, removals, enables/disables and priority changes.
CumulativeSumsMonotone ==
  ship.built =>
    /\ \A i \in Tiers : Band(i).deployed >= 0 /\ Band(i).retracted >= 0 /\ Band(i).retOnly >= 0
    /\ \A i \in Tiers, j \in Tiers :
         i < j => /\ Band(j).retractedSum >= Band(i).retractedSum
                  /\ Band(j).deployedSum >= Band(i).deployedSum

\* What a round trip compares: the cost, the masses, the capacities, the
\* raw band sums and what every slot holds.
Raw(band) == [deployed |-> band.deployed, retracted |-> band.retracted, retOnly |-> band.retOnly]
Contents(s) == [ref \in SlotRefs |-> <<GetSlot(s, ref).id, GetSlot(s, ref).c>>]
TripState(s) ==
  [totalCost |-> s.totalCost, unladenMass |-> s.unladenMass, ladenMass |-> s.ladenMass,
   fuelCapacity |-> s.fuelCapacity, cargoCapacity |-> s.cargoCapacity,
   raw |-> [i \in Tiers |-> Raw(s.priorityBands[i])],
   contents |-> Contents(s),
   thrown |-> s.thrown]

\* The components the catalog has for slot ref.
Installable(ref) ==
  {id \in (IF ref.grp = "standard" THEN {StandardIds[ref.i + 1]}
           ELSE IF ref.grp = "hardpoints" THEN HardpointIds ELSE InternalIds) :
     Lookup(ref, id) /= Null}

\* The last call was a use() that installed a component into an empty
\* slot.
InstalledIntoEmpty ==
  /\ last.op = "use" /\ last.old = Null /\ last.id \in Installable(last.ref)
  /\ ret = This

\* The other internal slot that use(ref, id) on ship s empties first, or
\* NoRef.
Vacated(s, ref, id) ==
  IF /\ ref \in InternalRefs
     /\ C(id).grp \in UniqueGroups
     /\ findInternalByGroup(s, C(id).grp) /= ref
    THEN findInternalByGroup(s, C(id).grp)
    ELSE NoRef

\* The ship after use(slot, null, null) on the slot just filled.
Removed == use(Cur, last.ref, Null, Null, FALSE)

\* C5: installing a component into an empty slot and then removing it
\* returns totalCost, the masses, the capacities, every tier's raw sums
\* and the contents of every other slot to their values before the
\* install, for every slot and every component.
RoundTripRestores ==
  InstalledIntoEmpty => TripState(Removed) = TripState(before)

\* C5, amended: the round trip restores all of these unless the
\* component is of a ship-unique group that another internal slot
\* holds; then it leaves the ship as the removal of that other slot's
\* component leaves it.
RoundTripRestoresButVacated ==
  InstalledIntoEmpty =>
    TripState(Removed) =
      IF Vacated(before, last.ref, last.id) = NoRef
        THEN TripState(before)
        ELSE TripState(use(before, Vacated(before, last.ref, last.id), Null, Null, FALSE))

\* A component that draws power was installed into an empty, enabled
\* slot and removed by the next call.
RoundTripMade ==
  /\ last2.op = "use" /\ last2.old = Null /\ last2.id \in Installable(last2.ref)
  /\ last.op = "use" /\ last.ref = last2.ref /\ last.id = Null /\ last.old = last2.id
  /\ C(last.old).power > 0 /\ Truthy(GetSlot(ship, last.ref).enabled)
  /\ ret = This
  /\ ship.priorityBands /= before.priorityBands

\* The raw sums of all tiers and usage classes, added up.
RECURSIVE RawTotal(_, _)
RawTotal(bands, i) ==
  (IF i = 0 THEN 0 ELSE RawTotal(bands, i - 1))
    + bands[i].deployed + bands[i].retracted + bands[i].retOnly

\* The last call was changePriority with an in-range tier on a slot that
\* was occupied and enabled.
PriorityMoved ==
  /\ last.op = "changePriority" /\ InRange(last.n)
  /\ GetSlot(before, last.ref).c /= Null
  /\ Truthy(GetSlot(before, last.ref).enabled)

\* What band i, usage class u, holds after power p has moved from tier
\* old to tier new in usage class usage.
Moved(i, u, usage, old, new, p) ==
  before.priorityBands[i][u]
    + (IF u = usage /\ i = new THEN p ELSE 0)
    - (IF u = usage /\ i = old THEN p ELSE 0)

\* C6: changePriority with an in-range tier on an enabled, occupied slot
\* takes exactly the component's power out of the old tier's bucket of
\* its usage class and puts it into the new tier's; the sum of all raw
\* sums is unchanged and so is every other bucket.
PriorityMoveConserves ==
  PriorityMoved =>
    /\ \A i \in Tiers, u \in {"deployed", "retracted", "retOnly"} :
         ship.priorityBands[i][u] =
           Moved(i, u, powerUsageType(last.ref, GetSlot(before, last.ref).c),
                 GetSlot(before, last.ref).priority, last.n,
                 C(GetSlot(before, last.ref).c).power)
    /\ RawTotal(ship.priorityBands, NumBands - 1) = RawTotal(before.priorityBands, NumBands - 1)
    /\ GetSlot(ship, last.ref).priority = last.n
    /\ ret = "true"

\* A component that draws power has moved to another tier.
PriorityMovedPower ==
  /\ PriorityMoved
  /\ GetSlot(before, last.ref).priority /= last.n
  /\ C(GetSlot(before, last.ref).c).power > 0
  /\ ship.priorityBands /= before.priorityBands

\* C7: changePriority with a tier below 0 or at/above the number of
\* bands returns false and changes nothing: not the slot's priority, no
\* raw or cumulative sum, nothing else of the ship.
OutOfRangeRejected ==
  last.op = "changePriority" /\ ~(last.n >= 0 /\ last.n < NumBands) =>
    ret = "false" /\ ship = before

\* Both kinds of out-of-range tier have been refused on an occupied,
\* enabled slot.
OutOfRangeTried ==
  /\ last.op = "changePriority" /\ last.n >= NumBands /\ ret = "false"
  /\ last2.op = "changePriority" /\ last2.n < 0
  /\ GetSlot(ship, last.ref).c /= Null /\ Truthy(GetSlot(ship, last.ref).enabled)

\* C8: a second consecutive use() of the same slot with the same id
\* changes nothing: no slot field, no raw or cumulative band sum and no
\* aggregate differs from the state after the first call.
SecondUseChangesNothing ==
  /\ last.op = "use" /\ last2.op = "use"
  /\ last.ref = last2.ref /\ last.id = last2.id
  => ship = before /\ ret = This

\* The first of the two calls installed a component that draws power.
SecondUseMade ==
  /\ last.op = "use" /\ last2.op = "use"
  /\ last.ref = last2.ref /\ last.id = last2.id
  /\ last2.old /= last2.id
  /\ GetSlot(ship, last.ref).c /= Null
  /\ C(GetSlot(ship, last.ref).c).power > 0
  /\ Truthy(GetSlot(ship, last.ref).enabled)

\* hullCost * shipMultiplier if the hull is cost-included, plus cost *
\* componentMultiplier over the cost-included occupied slots (bulkheads,
\* standard, hardpoints, internal).
RECURSIVE ComponentCosts(_, _)
ComponentCosts(s, refs) ==
  IF refs = {} THEN 0
  ELSE LET r == CHOOSE x \in refs : TRUE
       IN (IF GetSlot(s, r).c /= Null /\ GetSlot(s, r).incCost
             THEN C(GetSlot(s, r).c).cost * s.componentCostMultiplier ELSE 0)
          + ComponentCosts(s, refs \ {r})
ExpectedCost(s) ==
  (IF s.c.incCost THEN HullCost * s.shipCostMultiplier ELSE 0)
    + ComponentCosts(s, {Bulkheads} \cup SlotRefs)

\* C9: after applyDiscounts totalCost is hullCost * shipMultiplier (hull
\* cost-included) plus the sum of cost * componentMultiplier over the
\* cost-included occupied slots, the multipliers are stored, and later
\* installs and removals keep the equality (which a ship that has been
\* built has before the call too, with both multipliers 1).
TotalCostDiscounted ==
  /\ ship.built => ship.totalCost = ExpectedCost(ship)
  /\ last.op = "applyDiscounts" =>
       /\ ship.shipCostMultiplier = last.n
       /\ <<ship.shipCostMultiplier, ship.componentCostMultiplier>> \in MultiplierInputs

\* After applyDiscounts a component was installed, at its discounted
\* cost.
DiscountedThenInstalled ==
  /\ last2.op = "applyDiscounts" /\ last.op = "use" /\ last.id /= last.old
  /\ GetSlot(ship, last.ref).c /= Null
  /\ C(GetSlot(ship, last.ref).c).cost > 0
  /\ GetSlot(ship, last.ref).incCost
  /\ ship.componentCostMultiplier > 1
  /\ ship.totalCost /= before.totalCost

\* C10: in every state reachable by rebuilds and installs, also installs
\* of an id the catalog does not know, a standard, hardpoint or internal
\* slot has a component exactly when it has an id.
ComponentIffId ==
  \A ref \in SlotRefs : GetSlot(ship, ref).c = Null <=> GetSlot(ship, ref).id = Null

\* C11: on a ship that has been built, after any installs, removals,
\* unique-group vacates and applyDiscounts calls, the bulkheads and every
\* standard, hardpoint and internal slot have discountedCost = component
\* cost * current component multiplier when a component is present, and 0
\* when the slot is empty.
SlotCostDiscounted ==
  ship.built =>
    \A ref \in {Bulkheads} \cup SlotRefs :
      GetSlot(ship, ref).discountedCost =
        IF GetSlot(ship, ref).c /= Null
          THEN C(GetSlot(ship, ref).c).cost * ship.componentCostMultiplier
          ELSE 0

\* After applyDiscounts with a component multiplier above 1, an install
\* into an internal slot vacated the slot that held the unique group.
VacatedAfterDiscount ==
  /\ last2.op = "applyDiscounts" /\ last.op = "use" /\ ret = This
  /\ ship.componentCostMultiplier > 1
  /\ last.ref \in InternalRefs
  /\ GetSlot(ship, last.ref).c /= Null
  /\ C(GetSlot(ship, last.ref).c).cost > 0
  /\ \E other \in InternalRefs \ {last.ref} :
        GetSlot(before, other).c /= Null /\ GetSlot(ship, other).c = Null

\* The index of a slot's entry in the priorities and enabled arrays of
\* buildWith.  After a buildWith last.n is the number of entries the
\* enabled array had (0 when it was null); the priorities array of every
\* call has as many.
Entry(ref) == IF ref = CargoHatch THEN 0 ELSE ArrIndex(ref)
EntryAbsent(ref) == Entry(ref) >= last.n

\* The power tier 0 holds in one usage class when every occupied slot of
\* tier 0 that is enabled, or whose enabled entry was absent, is counted.
RECURSIVE CountedPower(_, _)
CountedPower(refs, usage) ==
  IF refs = {} THEN 0
  ELSE LET r == CHOOSE x \in refs : TRUE
       IN (IF /\ Occupied(r)
              /\ GetSlot(ship, r).priority = 0
              /\ powerUsageType(r, GetSlot(ship, r).c) = usage
              /\ (EntryAbsent(r) \/ Enabled(r))
             THEN C(GetSlot(ship, r).c).power ELSE 0)
          + CountedPower(refs \ {r}, usage)

\* C12: after buildWith the cargo hatch and every standard, hardpoint and
\* internal slot whose priorities entry is absent has priority 0 and,
\* when its enabled entry is absent, enabled = true, whether the whole
\* array or only the entry is missing; the power of such a slot's
\* component is counted in tier 0's raw sums.
AbsentEntriesDefault ==
  last.op = "buildWith" =>
    /\ \A ref \in StatusRefs :
         EntryAbsent(ref) =>
           GetSlot(ship, ref).priority = 0 /\ GetSlot(ship, ref).enabled = EnTrue
    /\ Band(0).retracted = CountedPower(StatusRefs, "retracted")
    /\ Band(0).deployed = CountedPower(StatusRefs, "deployed")

\* The sum over the occupied slots refs of ship s of one of mass and
\* capacity, the capacity of the components of one group only.
RECURSIVE InstalledMass(_, _)
InstalledMass(s, refs) ==
  IF refs = {} THEN 0
  ELSE LET r == CHOOSE x \in refs : TRUE
       IN (IF GetSlot(s, r).c /= Null THEN C(GetSlot(s, r).c).mass ELSE 0)
          + InstalledMass(s, refs \ {r})
RECURSIVE InstalledCapacity(_, _, _)
InstalledCapacity(s, refs, grp) ==
  IF refs = {} THEN 0
  ELSE LET r == CHOOSE x \in refs : TRUE
       IN (IF GetSlot(s, r).c /= Null /\ C(GetSlot(s, r).c).grp = grp
             THEN C(GetSlot(s, r).c).capacity ELSE 0)
          + InstalledCapacity(s, refs \ {r}, grp)

\* C13: after every completed mutation of a ship that has been built,
\* unladenMass = hullMass + the masses of the installed components
\* (bulkheads, standard, hardpoints, internal; enabled or not),
\* fuelCapacity and cargoCapacity are the summed capacities of the fuel
\* tanks and of the cargo racks, and ladenMass = unladenMass +
\* fuelCapacity + cargoCapacity.
MassesAreSums ==
  ship.built /\ ~ship.thrown =>
    /\ ship.unladenMass = HullMass + InstalledMass(ship, {Bulkheads} \cup SlotRefs)
    /\ ship.fuelCapacity = InstalledCapacity(ship, SlotRefs, "ft")
    /\ ship.cargoCapacity = InstalledCapacity(ship, SlotRefs, "cr")
    /\ ship.ladenMass = ship.unladenMass + ship.fuelCapacity + ship.cargoCapacity

\* A cargo rack was installed on a ship that carries a disabled component
\* with mass.
RackInstalledBesideDisabled ==
  /\ last.op = "use" /\ ret = This
  /\ ship.cargoCapacity > before.cargoCapacity
  /\ \E ref \in SlotRefs :
        Occupied(ref) /\ ~Enabled(ref) /\ C(GetSlot(ship, ref).c).mass > 0

\* The last call was setSlotEnabled; it found the flag different from its
\* argument (slot.enabled != enabled); the slot held a component.
EnabledCalled == last.op = "setSlotEnabled"
FlagChanged == LooseNeq(GetSlot(before, last.ref).enabled, last.id)
SlotHeld == GetSlot(before, last.ref).c
Bucket(s, i, u) ==
  CASE u = "deployed" -> s.priorityBands[i].deployed
    [] u = "retracted" -> s.priorityBands[i].retracted
    [] u = "retOnly" -> s.priorityBands[i].retOnly
SumsRecomputed(s) ==
  \A i \in Tiers :
    /\ s.priorityBands[i].retractedSum = RetractedSum(s.priorityBands, i)
    /\ s.priorityBands[i].deployedSum = DeployedSum(s.priorityBands, i)

\* The ship after the slot just disabled is enabled again.
Reenabled == setSlotEnabled(Cur, last.ref, EnTrue)

\* C14: setSlotEnabled changes nothing when the flag already has the
\* value; otherwise, for an occupied slot, exactly the raw bucket of the
\* slot's tier and the component's usage class changes, by +power on
\* enabling and -power on disabling, the masses, the cost and the
\* capacities stay and the cumulative sums are recomputed; enabling the
\* slot again after a disable restores every band sum, shieldMultiplier
\* and totalDps.
SetSlotEnabledExact ==
  EnabledCalled =>
    /\ ~FlagChanged => ship = before
    /\ FlagChanged /\ SlotHeld /= Null =>
         /\ ret = This
         /\ \A i \in Tiers, u \in {"deployed", "retracted", "retOnly"} :
              Bucket(ship, i, u) =
                Bucket(before, i, u)
                  + (IF i = GetSlot(before, last.ref).priority
                          /\ u = powerUsageType(last.ref, SlotHeld)
                       THEN (IF Truthy(last.id) THEN 1 ELSE 0 - 1) * C(SlotHeld).power
                       ELSE 0)
         /\ ship.unladenMass = before.unladenMass /\ ship.ladenMass = before.ladenMass
         /\ ship.totalCost = before.totalCost
         /\ ship.fuelCapacity = before.fuelCapacity
         /\ ship.cargoCapacity = before.cargoCapacity
         /\ SumsRecomputed(ship)
         /\ ~Truthy(last.id) =>
              /\ Reenabled.priorityBands = before.priorityBands
              /\ Reenabled.shieldMultiplier = before.shieldMultiplier
              /\ Reenabled.totalDps = before.totalDps

\* An enabled slot whose component draws power and gives dps or a shield
\* multiplier was disabled.
DrawingSlotDisabled ==
  /\ EnabledCalled /\ last.id = EnFalse
  /\ GetSlot(before, last.ref).enabled = EnTrue
  /\ SlotHeld /= Null
  /\ C(SlotHeld).power > 0
  /\ (ship.totalDps /= before.totalDps \/ ship.shieldMultiplier /= before.shieldMultiplier)

\* The last call was setCostIncluded(item, included); last.n is 1 for
\* included = true.
CostCalled == last.op = "setCostIncluded"
Included == last.n = 1
Item == GetSlot(before, last.ref)

\* The ship after the item just excluded is included again.
Reincluded == setCostIncluded(Cur, last.ref, TRUE)

\* C15: setCostIncluded changes nothing when the item's flag already has
\* the value; otherwise it adds (including) or subtracts (excluding) the
\* item's discountedCost to totalCost, which for an empty item is 0,
\* flips incCost and changes nothing else (no band sum, mass, capacity or
\* other aggregate); including the item again after an exclusion restores
\* totalCost.
SetCostIncludedExact ==
  CostCalled =>
    /\ ret = This
    /\ Item.incCost = Included => ship = before
    /\ Item.incCost /= Included =>
         /\ ship = SetSlot([before EXCEPT !.totalCost =
                               @ + (IF Included THEN 1 ELSE 0 - 1) * Item.discountedCost],
                           last.ref, [Item EXCEPT !.incCost = Included])
         /\ ~Included => Reincluded.totalCost = before.totalCost

\* After applyDiscounts an occupied item with a cost was excluded.
DiscountedItemExcluded ==
  /\ last2.op = "applyDiscounts" /\ CostCalled /\ ~Included /\ Item.incCost
  /\ Item.c /= Null
  /\ Item.discountedCost > C(Item.c).cost
  /\ ship.totalCost < before.totalCost

\* The ship on which optimizeMass's loop starts, and the ship after its
\* first pass.
LoopStart == LightestFixed(emptyInternal(emptyHardpoints(before)))
FirstPass == PowerPlantPass(ThrusterPass(LoopStart))

OtherBuilds(builds, shipId, name) ==
  [s \in SavedShipIds, n \in SavedNames |->
     IF <<s, n>> = <<shipId, name>> \/ ~builds[s].defined THEN Undefined
     ELSE builds[s].of[n]]
OnlyBuild(builds, shipId, name) ==
  /\ builds[shipId].defined
  /\ \A n \in SavedNames \ {name} : builds[shipId].of[n] = Undefined

\* C17: after deleteBuild(shipId, name) a getBuild(shipId, name) finds
\* nothing, the ship's collection is gone when the build was its only one,
\* and every other saved build is as it was.
DeletedBuildGone ==
  persist.op = "deleteBuild" =>
    /\ getBuild(persist, persist.shipId, persist.name) \in {Null, Undefined}
    /\ OnlyBuild(persist.prev, persist.shipId, persist.name) =>
         ~persist.builds[persist.shipId].defined
    /\ OtherBuilds(persist.builds, persist.shipId, persist.name)
         = OtherBuilds(persist.prev, persist.shipId, persist.name)

\* The last call was changePriority with an in-range tier on an enabled
\* slot that held no component.
PriorityOfEmptySlot ==
  /\ last.op = "changePriority" /\ InRange(last.n)
  /\ GetSlot(before, last.ref).c = Null
  /\ Truthy(GetSlot(before, last.ref).enabled)

\* C18: changePriority with an in-range tier on an enabled slot that
\* holds no component returns true, stores the tier as the slot's
\* priority and leaves every raw and cumulative band sum as it was; and
\* no changePriority call ends with the priority changed although the
\* call failed, or with the band sums changed in part.
EmptySlotPriorityChanged ==
  last.op = "changePriority" =>
    /\ PriorityOfEmptySlot =>
         /\ ret = "true"
         /\ GetSlot(ship, last.ref).priority = last.n
         /\ ship.priorityBands = before.priorityBands
    /\ ret \notin {"true"} =>
         /\ GetSlot(ship, last.ref).priority = GetSlot(before, last.ref).priority
         /\ ship.priorityBands = before.priorityBands
    /\ SumsRecomputed(ship) \/ ship.priorityBands = before.priorityBands

\* C19: after every use, setSlotEnabled, changePriority and buildWith
\* with components, the stored cumulative sums are those computed from
\* the current raw sums (retractedSum[i] = retractedSum[i-1] +
\* retracted[i] + retOnly[i], deployedSum[i] = deployedSum[i-1] +
\* deployed[i] + retracted[i]), powerRetracted and powerDeployed are the
\* last tier's cumulative sums and powerAvailable is the output of the
\* installed power plant.
SumsNeverStale ==
  last.op \in {"use", "setSlotEnabled", "changePriority", "buildWith"} =>
    /\ SumsRecomputed(ship)
    /\ ship.powerRetracted = Band(NumBands - 1).retractedSum
    /\ ship.powerDeployed = Band(NumBands - 1).deployedSum
    /\ ship.standard[0].c /= Null
    /\ ship.powerAvailable = C(ship.standard[0].c).pGen

\* After power had moved to another tier, a use() changed a tier's draw
\* or exchanged the power plant for one of another output.
DrawChangedAfterMove ==
  /\ last2.op = "changePriority" /\ last.op = "use" /\ ret = This
  /\ \E i \in Tiers \ {0} : Band(i).deployed + Band(i).retracted > 0
  /\ \/ ship.powerAvailable /= before.powerAvailable
     \/ ship.powerDeployed /= before.powerDeployed

\* The internal slots of ship s that hold a shield generator (sg or psg),
\* and whether one of them is enabled.
Generators(s) ==
  {ref \in InternalRefs :
     GetSlot(s, ref).c /= Null /\ C(GetSlot(s, ref).c).grp \in {"sg", "psg"}}
GeneratorEnabled(s) == \E ref \in Generators(s) : Truthy(GetSlot(s, ref).enabled)

\* The last call installed a shield generator, or enabled a slot that
\* holds one.
GeneratorInstalled ==
  /\ last.op = "use" /\ last.id /= last.old
  /\ last.ref \in Generators(ship)
GeneratorSwitchedOn ==
  /\ last.op = "setSlotEnabled" /\ Truthy(last.id)
  /\ last.ref \in Generators(ship)

\* C20: after a use() or setSlotEnabled() that is not suppressed,
\* shieldStrength is 0 when no internal slot holds a shield generator or
\* the slot that holds it is disabled, and it has become non-zero only by
\* a call that installed a shield generator or enabled one.
ShieldNeedsGenerator ==
  last.op \in {"use", "setSlotEnabled"} /\ ret = This =>
    /\ ~GeneratorEnabled(ship) => ship.shieldStrength = 0
    /\ ship.shieldStrength /= 0 /\ before.shieldStrength = 0 =>
         GeneratorInstalled \/ GeneratorSwitchedOn

\* C20, amended: the same, the second part for a ship that held at most
\* one shield generator when the call started (buildWith can leave two,
\* and removing a disabled one then uncovers the other).
ShieldNeedsGeneratorButOne ==
  last.op \in {"use", "setSlotEnabled"} /\ ret = This =>
    /\ ~GeneratorEnabled(ship) => ship.shieldStrength = 0
    /\ /\ ship.shieldStrength /= 0 /\ before.shieldStrength = 0
       /\ Cardinality(Generators(before)) <= 1
       => GeneratorInstalled \/ GeneratorSwitchedOn

\* A disabled shield generator was enabled and the shield strength, 0
\* until then, is not 0 any more; the call before had disabled it.
GeneratorEnabledAgain ==
  /\ GeneratorSwitchedOn /\ ret = This
  /\ last2.op = "setSlotEnabled" /\ last2.ref = last.ref /\ ~Truthy(last2.id)
  /\ before.shieldStrength = 0 /\ ship.shieldStrength /= 0

\* The component useWeapon is to find for a slot of class maxClass: the
\* group's component of the largest size from 1 to maxClass that has one,
\* or Null.
MatchSizes(group, maxClass) == {z \in 1..maxClass : findHardpoint(group, z) /= Null}
LargestMatch(group, maxClass) ==
  IF MatchSizes(group, maxClass) = {} THEN Null
  ELSE findHardpoint(group, CHOOSE z \in MatchSizes(group, maxClass) :
                              \A y \in MatchSizes(group, maxClass) : y <= z)
Kept(ref) == GetSlot(ship, ref) = GetSlot(before, ref)

\* C21: useUtility and useWeapon without the overwrite flag leave every
\* occupied hardpoint as it was; useUtility changes only hardpoints
\* without a class size and useWeapon only hardpoints with one; and
\* useWeapon leaves in an empty weapon hardpoint the group's component of
\* the largest size not above the slot's maximum class, or nothing when no
\* size down to 1 has one.
FillsEmptyHardpointsOnly ==
  /\ last.op \in {"useUtility", "useWeapon"} /\ last.n = 0 =>
       \A ref \in HardpointRefs : GetSlot(before, ref).c /= Null => Kept(ref)
  /\ last.op = "useUtility" =>
       \A ref \in HardpointRefs : GetSlot(before, ref).maxClass /= 0 => Kept(ref)
  /\ last.op = "useWeapon" =>
       \A ref \in HardpointRefs : GetSlot(before, ref).maxClass = 0 => Kept(ref)
  /\ last.op = "useWeapon" /\ last.n = 0 =>
       \A ref \in HardpointRefs :
         GetSlot(before, ref).maxClass /= 0 /\ GetSlot(before, ref).c = Null =>
           /\ GetSlot(ship, ref).c = LargestMatch(last.id, GetSlot(before, ref).maxClass)
           /\ GetSlot(ship, ref).id = GetSlot(ship, ref).c

\* useWeapon without the overwrite flag found no laser of size 3 for an
\* empty slot of class 3 and installed the one of size 2, next to a weapon
\* hardpoint that was occupied.
WeaponFoundBelowMaxClass ==
  /\ last.op = "useWeapon" /\ last.n = 0 /\ ret = This
  /\ \E ref \in HardpointRefs :
        /\ GetSlot(before, ref).c = Null
        /\ GetSlot(ship, ref).c /= Null
        /\ findHardpoint(last.id, GetSlot(ship, ref).maxClass) = Null
  /\ \E ref \in HardpointRefs :
        GetSlot(before, ref).maxClass /= 0 /\ GetSlot(before, ref).c /= Null

\* C22: in every state each tier's retOnly raw sum is 0, each tier's
\* retracted running sum is at most its deployed running sum, and
\* powerRetracted is at most powerDeployed.
RetractedAtMostDeployed ==
  /\ \A i \in Tiers :
       /\ Band(i).retOnly = 0
       /\ Band(i).retractedSum <= Band(i).deployedSum
  /\ ship.powerRetracted <= ship.powerDeployed

\* The sum of dps over the occupied slots refs whose flag is set.
RECURSIVE EnabledDps(_)
EnabledDps(refs) ==
  IF refs = {} THEN 0
  ELSE LET r == CHOOSE x \in refs : TRUE
       IN (IF Occupied(r) /\ Enabled(r) THEN C(GetSlot(ship, r).c).dps ELSE 0)
          + EnabledDps(refs \ {r})

\* C23: after buildWith, use and setSlotEnabled, totalDps is the sum of
\* dps over the components in enabled slots, and it is never negative.
TotalDpsOfEnabledSlots ==
  /\ ship.built /\ ~ship.thrown
       /\ last.op \in {"buildWith", "use", "setSlotEnabled", "useUtility", "useWeapon"} =>
       ship.totalDps = EnabledDps(StatusRefs)
  /\ ship.totalDps >= 0

====
